---- MODULE Spec2Model ----
(***************************************************************************)
(* Storefront client: the local cart stores (useCartStore,                 *)
(* useProductStore), the CartProvider / CartList pair that mirrors the     *)
(* remote cart, the axios response interceptor and the checkout entry      *)
(* points.                                                                 *)
(***************************************************************************)
EXTENDS Integers, Sequences, FiniteSets, TLC

\* ---------------------------------------------------------------- bounds
NumProducts == 2
MaxQty == 2
\* requests the modelled session may still issue, and how many may be
\* outstanding at once
MaxCalls == 3
MaxInflight == 2
\* products the remote cart offers
NumRemote == 1
\* a checkout session: requests it may issue, and how many at once
MaxCheckoutCalls == 4
CheckoutInflight == 1
\* a session of quantity clicks: clicks, and requests outstanding at once
MaxClicks == 5
ClicksInflight == 1

\* prices run over 0..MaxPrice (in cents)
MaxPrice == 2

Products == 1..NumProducts
RemoteProducts == 1..NumRemote
\* quantities a caller may pass to updateQuantity / updateCartQuantity
QtyInputs == (0 - 1)..MaxQty

VARIABLES
  csItems,         \* useCartStore.cartItems
  psItems,         \* useProductStore.cartItems
  lsCart,          \* localStorage 'cart' entry written by useProductStore
  psLoading,       \* useProductStore.loading
  psError,         \* useProductStore.error (TRUE: a message is set)
  page,            \* the route the browser shows
  redirecting,     \* target of a window.location.href assignment not yet carried out
  user,            \* AuthContext.user (TRUE: a user object)
  accessToken,     \* localStorage 'accessToken' present
  refreshToken,    \* localStorage 'refreshToken' present
  cart,            \* CartProvider cart
  loading,         \* CartProvider loading
  error,           \* CartProvider error (TRUE: a message is set)
  clLoading,       \* CartList loading
  clError,         \* CartList error (TRUE: a message is set)
  syncingCart,     \* CartList syncingCart
  syncInitiated,   \* CartList syncInitiated.current
  localQuantities, \* CartList localQuantities (0: key absent)
  effectPending,   \* CartProvider re-rendered: effects depending on syncCart must re-run
  reqs,            \* axios requests outstanding, by slot
  serverCart,      \* the cart held by the remote cart service
  sessions,        \* checkout sessions created by the payment service and not yet resolved
  budget,          \* calls: requests the session may still issue; cap: how many at once
  last,            \* the last event, for stating the properties
  intents,         \* quantity-button intents handled for a logged-in user
  latestEdit,      \* per product, the quantity of the last set-quantity call made (NoEdit: none)
  qtyCalls,        \* updateQuantity requests the quantity buttons handed to axios
  snapshot         \* the items of the last session-creation request

ledgerVars == <<csItems, psItems, lsCart>>
storeVars == <<psLoading, psError>>
authVars == <<user, accessToken, refreshToken>>
provVars == <<cart, loading, error>>
clVars == <<clLoading, clError, syncingCart, syncInitiated, localQuantities>>
netVars == <<reqs, serverCart, sessions, budget>>
vars == <<csItems, psItems, lsCart, psLoading, psError, page, redirecting,
          user, accessToken, refreshToken, cart, loading, error,
          clLoading, clError, syncingCart, syncInitiated, localQuantities,
          effectPending, reqs, serverCart, sessions, budget, last,
          intents, latestEdit, qtyCalls, snapshot>>
\* everything but the local stores
appVars == <<psLoading, psError, page, redirecting,
             user, accessToken, refreshToken, cart, loading, error,
             clLoading, clError, syncingCart, syncInitiated, localQuantities,
             effectPending, reqs, serverCart, sessions, budget,
             intents, latestEdit, qtyCalls, snapshot>>

\* the localStorage 'cart' entry: absent, or the JSON text of a list of lines
Absent == [present |-> FALSE, items |-> <<>>]
Stored(items) == [present |-> TRUE, items |-> items]
NoEdit == 0 - 1

\* history of the last step: nothing worth recording
NoEvent == [ev |-> "none"]

\* ------------------------------------------------------- array helpers
\* items.filter(item => item.id !== p)
RECURSIVE FilterOutId(_, _)
FilterOutId(s, p) ==
  IF s = <<>> THEN <<>>
  ELSE IF Head(s).id # p THEN <<Head(s)>> \o FilterOutId(Tail(s), p)
       ELSE FilterOutId(Tail(s), p)

Ids(s) == {s[i].id : i \in DOMAIN s}
HasId(s, p) == \E i \in DOMAIN s : s[i].id = p

\* ------------------------------------------------ useCartStore (zustand)
CartStore_addItem_keepqty(items, item) ==
  IF HasId(items, item.id)
  THEN [i \in DOMAIN items |->
          IF items[i].id = item.id
          THEN [items[i] EXCEPT !.quantity = items[i].quantity + 1]
          ELSE items[i]]
  ELSE Append(items, item)

\* addToCart(item): item may carry a quantity field of its own
CartStore_addItem(items, item) ==
  IF HasId(items, item.id)
  THEN [i \in DOMAIN items |->
          IF items[i].id = item.id
          THEN [items[i] EXCEPT !.quantity = items[i].quantity + 1]
          ELSE items[i]]
  ELSE Append(items, [item EXCEPT !.quantity = 1])

CartStore_add_dup(items, p) == Append(items, [id |-> p, quantity |-> 1])

CartStore_add(items, p) == CartStore_addItem(items, [id |-> p, quantity |-> 0])

CartStore_remove_pop(items, p) ==
  IF HasId(items, p) \/ items = <<>> THEN FilterOutId(items, p)
  ELSE SubSeq(items, 1, Len(items) - 1)

CartStore_remove(items, p) == FilterOutId(items, p)

CartStore_update_additive(items, p, q) ==
  [i \in DOMAIN items |->
     IF items[i].id = p THEN [items[i] EXCEPT !.quantity = @ + q] ELSE items[i]]

CartStore_update(items, p, q) ==
  [i \in DOMAIN items |->
     IF items[i].id = p THEN [items[i] EXCEPT !.quantity = q] ELSE items[i]]

CartStore_addToCart(p) ==
  /\ \A i \in DOMAIN csItems : csItems[i].id = p => csItems[i].quantity < MaxQty
  /\ csItems' = CartStore_add(csItems, p)
  /\ last' = NoEvent
  /\ UNCHANGED <<psItems, lsCart, appVars>>

CartStore_removeFromCart(p) ==
  /\ csItems' = CartStore_remove(csItems, p)
  /\ last' = NoEvent
  /\ UNCHANGED <<psItems, lsCart, appVars>>

CartStore_updateQuantity(p, q) ==
  /\ csItems' = CartStore_update(csItems, p, q)
  /\ last' = NoEvent
  /\ UNCHANGED <<psItems, lsCart, appVars>>

CartStore_clearCart ==
  /\ csItems' = <<>>
  /\ last' = NoEvent
  /\ UNCHANGED <<psItems, lsCart, appVars>>

\* --------------------------------------------- useProductStore (cart part)
ProductStore_add(items, p) ==
  IF HasId(items, p)
  THEN [i \in DOMAIN items |->
          IF items[i].id = p
          THEN [items[i] EXCEPT !.cartQuantity = items[i].cartQuantity + 1]
          ELSE items[i]]
  ELSE Append(items, [id |-> p, cartQuantity |-> 1])

ProductStore_remove(items, p) == FilterOutId(items, p)

Max(a, b) == IF a >= b THEN a ELSE b

ProductStore_update(items, p, q) ==
  IF q < 1 THEN items
  ELSE [i \in DOMAIN items |->
          IF items[i].id = p
          THEN [items[i] EXCEPT !.cartQuantity = Max(1, q)]
          ELSE items[i]]

ProductStore_addToCart_aliased(p) ==
  /\ \A i \in DOMAIN psItems : psItems[i].id = p => psItems[i].cartQuantity < MaxQty
  /\ psItems' = ProductStore_add(psItems, p)
  /\ lsCart' = Stored(psItems')
  /\ last' = NoEvent
  /\ reqs' = [s \in DOMAIN reqs |->
       IF reqs[s].kind = "checkout" /\ reqs[s].origin = "initiateCheckout"
       THEN [reqs[s] EXCEPT !.items = psItems'] ELSE reqs[s]]
  /\ UNCHANGED <<csItems, psLoading, psError, page, redirecting,
                 user, accessToken, refreshToken, cart, loading, error,
                 clLoading, clError, syncingCart, syncInitiated, localQuantities,
                 effectPending, serverCart, sessions, budget,
                 intents, latestEdit, qtyCalls, snapshot>>

ProductStore_addToCart(p) ==
  /\ \A i \in DOMAIN psItems : psItems[i].id = p => psItems[i].cartQuantity < MaxQty
  /\ psItems' = ProductStore_add(psItems, p)
  /\ lsCart' = Stored(psItems')
  /\ last' = NoEvent
  /\ UNCHANGED <<csItems, appVars>>

ProductStore_removeFromCart_nopersist(p) ==
  /\ psItems' = ProductStore_remove(psItems, p)
  /\ lsCart' = lsCart
  /\ last' = NoEvent
  /\ UNCHANGED <<csItems, appVars>>

ProductStore_removeFromCart(p) ==
  /\ psItems' = ProductStore_remove(psItems, p)
  /\ lsCart' = Stored(psItems')
  /\ last' = NoEvent
  /\ UNCHANGED <<csItems, appVars>>

ProductStore_updateCartQuantity(p, q) ==
  /\ psItems' = ProductStore_update(psItems, p, q)
  /\ lsCart' = IF q < 1 THEN lsCart ELSE Stored(psItems')
  /\ last' = NoEvent
  /\ UNCHANGED <<csItems, appVars>>

ProductStore_clearCart ==
  /\ psItems' = <<>>
  /\ lsCart' = Absent
  /\ last' = NoEvent
  /\ UNCHANGED <<csItems, appVars>>

\* ------------------------------------------------ axios requests in flight
NoReq == [kind |-> "none"]
Slots == 1..MaxInflight
FreeSlots == {s \in Slots : reqs[s] = NoReq}
MinOf(S) == CHOOSE x \in S : \A y \in S : x <= y

Mutations == {"add", "update", "remove", "clear"}
Failures == {"401", "err"}
\* routes whose component runs an effect that depends on syncCart
EffectPages == {"cart", "storeSuccess", "storeCanceled"}
CartListOrigins == {"initCart", "handleSyncCart", "qtyButton", "qtyBlur",
                    "handleRemoveItem", "handleClearCart", "handleCheckout"}

\* a request as handed to axios: stage "sent" until the service answered,
\* then "answered" until the awaiting handler has run
NewReq(kind, origin, p, q, items) ==
  [kind |-> kind, origin |-> origin, pid |-> p, qty |-> q, items |-> items,
   retry |-> FALSE, sends |-> 1, stage |-> "sent", resp |-> "none",
   data |-> <<>>, orphan |-> FALSE, gone |-> FALSE]

CanIssue ==
  /\ budget.calls > 0
  /\ FreeSlots # {}
  /\ Cardinality(Slots \ FreeSlots) < budget.cap
Issue(r) ==
  /\ reqs' = [reqs EXCEPT ![MinOf(FreeSlots)] = r]
  /\ budget' = [budget EXCEPT !.calls = @ - 1]
  /\ qtyCalls' = IF r.origin = "qtyButton" THEN qtyCalls + 1 ELSE qtyCalls

\* the [cart] effect of CartList: localQuantities rebuilt from the cart
FromCart(c) ==
  [p \in RemoteProducts |->
     IF HasId(c, p) THEN (CHOOSE it \in {c[i] : i \in DOMAIN c} : it.id = p).quantity
     ELSE 0]

\* ------------------------------------------------- remote cart service
Server_add(sc, p, q) ==
  IF HasId(sc, p)
  THEN [i \in DOMAIN sc |->
          IF sc[i].id = p THEN [sc[i] EXCEPT !.quantity = sc[i].quantity + q]
          ELSE sc[i]]
  ELSE Append(sc, [id |-> p, quantity |-> q])

Server_update(sc, p, q) ==
  [i \in DOMAIN sc |->
     IF sc[i].id = p THEN [sc[i] EXCEPT !.quantity = q] ELSE sc[i]]

ServerApply(sc, r) ==
  CASE r.kind = "add" -> Server_add(sc, r.pid, r.qty)
    [] r.kind = "update" -> Server_update(sc, r.pid, r.qty)
    [] r.kind = "remove" -> FilterOutId(sc, r.pid)
    [] r.kind = "clear" -> <<>>
    [] OTHER -> sc

\* the service handles a request: "ok" answers with the cart (or the
\* checkout url), "bad" is a 2xx body without the expected field, "lost"
\* is a request handled whose answer never arrives (timeout)
Serve(s, outcome) ==
  /\ reqs[s] # NoReq
  /\ reqs[s].stage = "sent"
  /\ serverCart' = ServerApply(serverCart, reqs[s])
  /\ sessions' = IF reqs[s].kind = "checkout" THEN sessions + 1 ELSE sessions
  /\ reqs' = [reqs EXCEPT ![s] =
       [@ EXCEPT !.stage = "answered",
                 !.resp = IF outcome = "lost" THEN "err" ELSE outcome,
                 !.data = IF outcome = "ok" /\ reqs[s].kind # "checkout"
                          THEN serverCart' ELSE <<>>]]
  /\ last' = NoEvent
  /\ UNCHANGED <<ledgerVars, storeVars, page, redirecting, authVars, provVars,
                 clVars, effectPending, budget, qtyCalls, intents, latestEdit, snapshot>>

\* the request fails without having been handled: 401, or no answer / 4xx / 5xx
Fail(s, status) ==
  /\ reqs[s] # NoReq
  /\ reqs[s].stage = "sent"
  /\ reqs' = [reqs EXCEPT ![s] = [@ EXCEPT !.stage = "answered", !.resp = status]]
  /\ last' = NoEvent
  /\ UNCHANGED <<ledgerVars, storeVars, page, redirecting, authVars, provVars,
                 clVars, effectPending, serverCart, sessions, budget, qtyCalls, intents, latestEdit, snapshot>>

\* ------------------------------------------ axios response interceptor
\* what the refresh endpoint may do: answer with a new access token, answer
\* 2xx with no access field, or fail
RefreshOutcomes == {"access", "empty", "fail"}

\* 401 on a request not yet retried: refresh the token, store response.data.access
\* (whatever it is) and re-send; or, with no refresh token or a failed refresh,
\* clear the tokens, head for /auth/login and reject
Interceptor401_noflag(s, refresh) ==
  /\ reqs[s] # NoReq
  /\ reqs[s].stage = "answered" /\ reqs[s].resp = "401"
  /\ ~reqs[s].orphan
  /\ reqs[s].sends < 4
  /\ IF refreshToken /\ refresh # "fail"
     THEN /\ accessToken' = TRUE
          /\ reqs' = [reqs EXCEPT ![s] =
               [@ EXCEPT !.retry = TRUE, !.sends = @ + 1,
                         !.stage = "sent", !.resp = "none"]]
          /\ last' = [ev |-> "resent", access |-> (refresh = "access")]
          /\ UNCHANGED <<refreshToken, redirecting>>
     ELSE /\ accessToken' = FALSE
          /\ refreshToken' = FALSE
          /\ redirecting' = "login"
          /\ reqs' = [reqs EXCEPT ![s] = [@ EXCEPT !.retry = TRUE]]
          /\ last' = [ev |-> "refreshFailed", slot |-> s]
  /\ UNCHANGED <<ledgerVars, storeVars, page, user, provVars, clVars,
                 effectPending, serverCart, sessions, budget, qtyCalls, intents, latestEdit,
                 snapshot>>

Interceptor401_anyerror(s, refresh) ==
  /\ reqs[s] # NoReq
  /\ reqs[s].stage = "answered" /\ reqs[s].resp \in Failures
  /\ ~reqs[s].retry /\ ~reqs[s].orphan
  /\ IF refreshToken /\ refresh # "fail"
     THEN /\ accessToken' = TRUE
          /\ reqs' = [reqs EXCEPT ![s] =
               [@ EXCEPT !.retry = TRUE, !.sends = @ + 1,
                         !.stage = "sent", !.resp = "none"]]
          /\ last' = [ev |-> "resent", access |-> (refresh = "access")]
          /\ UNCHANGED <<refreshToken, redirecting>>
     ELSE /\ accessToken' = FALSE
          /\ refreshToken' = FALSE
          /\ redirecting' = "login"
          /\ reqs' = [reqs EXCEPT ![s] = [@ EXCEPT !.retry = TRUE]]
          /\ last' = [ev |-> "refreshFailed", slot |-> s]
  /\ UNCHANGED <<ledgerVars, storeVars, page, user, provVars, clVars,
                 effectPending, serverCart, sessions, budget, qtyCalls, intents, latestEdit,
                 snapshot>>

Interceptor401(s, refresh) ==
  /\ reqs[s] # NoReq
  /\ reqs[s].stage = "answered" /\ reqs[s].resp = "401"
  /\ ~reqs[s].retry /\ ~reqs[s].orphan
  /\ IF refreshToken /\ refresh # "fail"
     THEN /\ accessToken' = TRUE
          /\ reqs' = [reqs EXCEPT ![s] =
               [@ EXCEPT !.retry = TRUE, !.sends = @ + 1,
                         !.stage = "sent", !.resp = "none"]]
          /\ last' = [ev |-> "resent", access |-> (refresh = "access")]
          /\ UNCHANGED <<refreshToken, redirecting>>
     ELSE /\ accessToken' = FALSE
          /\ refreshToken' = FALSE
          /\ redirecting' = "login"
          /\ reqs' = [reqs EXCEPT ![s] = [@ EXCEPT !.retry = TRUE]]
          /\ last' = [ev |-> "refreshFailed", slot |-> s]
  /\ UNCHANGED <<ledgerVars, storeVars, page, user, provVars, clVars,
                 effectPending, serverCart, sessions, budget, qtyCalls, intents, latestEdit, snapshot>>

\* ------------------------------- CartProvider: what runs after the await
\* setCart is called
CartSet(r) ==
  CASE r.kind = "fetch" -> TRUE
    [] r.kind \in {"add", "update"} -> r.resp = "ok"
    [] OTHER -> r.resp \notin Failures

CartAfter_merge(c, r) ==
  CASE r.kind = "fetch" -> IF r.resp = "ok" THEN r.data ELSE <<>>
    [] r.kind = "sync" -> IF r.resp = "ok" THEN (IF c = <<>> THEN r.data ELSE c) ELSE <<>>
    [] r.kind \in {"add", "update"} -> r.data
    [] r.kind = "remove" -> IF r.resp = "ok" THEN r.data ELSE FilterOutId(c, r.pid)
    [] OTHER -> <<>>

CartAfter_local(c, r) ==
  CASE r.kind \in {"fetch", "sync"} -> IF r.resp = "ok" THEN r.data ELSE <<>>
    [] r.kind \in {"add", "update"} -> c
    [] r.kind = "remove" -> IF r.resp = "ok" THEN r.data ELSE FilterOutId(c, r.pid)
    [] OTHER -> <<>>

CartAfter_keep(c, r) ==
  CASE r.kind = "fetch" -> IF r.resp = "ok" THEN r.data ELSE <<>>
    [] r.kind = "sync" -> c
    [] r.kind \in {"add", "update"} -> r.data
    [] r.kind = "remove" -> IF r.resp = "ok" THEN r.data ELSE FilterOutId(c, r.pid)
    [] OTHER -> <<>>

\* the value handed to setCart
CartAfter(c, r) ==
  CASE r.kind \in {"fetch", "sync"} -> IF r.resp = "ok" THEN r.data ELSE <<>>
    [] r.kind \in {"add", "update"} -> r.data
    [] r.kind = "remove" -> IF r.resp = "ok" THEN r.data ELSE FilterOutId(c, r.pid)
    [] OTHER -> <<>>

ErrorSet_quiet(r) ==
  IF r.kind \in {"add", "update"} THEN r.resp = "bad" ELSE r.resp = "401"

\* the catch block runs: setError(errorMessage)
ErrorSet(r) ==
  IF r.kind \in {"add", "update"} THEN r.resp # "ok" ELSE r.resp \in Failures

\* the operation rethrows to its caller (fetchCart swallows the error)
Throws(r) == r.kind # "fetch" /\ ErrorSet(r)

\* the event recorded for a handler that resumed
Delivered(r) ==
  [ev |-> "delivered", kind |-> r.kind, origin |-> r.origin, resp |-> r.resp,
   data |-> r.data, sends |-> r.sends, gone |-> r.gone,
   cartWas |-> cart, itemsWas |-> psItems]

\* the awaiting handler resumes with the answer (or the rejection)
Deliver(s) ==
  LET r == reqs[s]
      live == r.origin \in CartListOrigins /\ ~r.gone
      isCart == r.kind # "checkout" /\ ~r.orphan
      isCheckout == r.kind = "checkout" /\ ~r.orphan
  IN
  /\ r # NoReq
  /\ r.stage = "answered"
  /\ r.resp # "401" \/ r.retry \/ r.orphan
  /\ reqs' = [reqs EXCEPT ![s] = NoReq]
  /\ cart' = IF isCart /\ CartSet(r) THEN CartAfter(cart, r) ELSE cart
  /\ error' = IF isCart /\ ErrorSet(r) THEN TRUE ELSE error
  /\ loading' = IF isCart THEN FALSE ELSE loading
  /\ localQuantities' =
       IF isCart /\ CartSet(r) /\ page = "cart" THEN FromCart(cart')
       ELSE localQuantities
  /\ effectPending' =
       (effectPending \/
        (isCart /\ page \in EffectPages
           /\ (CartSet(r) \/ loading' # loading \/ error' # error)))
  /\ syncingCart' =
       IF isCart /\ live /\ r.origin \in {"initCart", "handleSyncCart"}
       THEN FALSE ELSE syncingCart
  /\ syncInitiated' =
       IF isCart /\ live /\ r.origin = "initCart" THEN FALSE ELSE syncInitiated
  /\ clLoading' =
       IF ~r.orphan /\ live
          /\ r.origin \in {"qtyButton", "qtyBlur", "handleRemoveItem",
                           "handleClearCart", "handleCheckout"}
       THEN FALSE ELSE clLoading
  /\ clError' =
       IF isCart /\ live /\ Throws(r) THEN TRUE
       ELSE IF isCheckout /\ live /\ r.resp # "ok" THEN TRUE
       ELSE clError
  /\ redirecting' =
       IF isCheckout /\ r.origin = "handleCheckout" /\ r.resp = "ok"
       THEN "pay" ELSE redirecting
  /\ psLoading' =
       IF isCheckout /\ r.origin = "initiateCheckout" THEN FALSE ELSE psLoading
  /\ psError' =
       IF isCheckout /\ r.origin = "initiateCheckout" /\ r.resp \in Failures
       THEN TRUE ELSE psError
  /\ last' = IF r.orphan THEN NoEvent ELSE Delivered(r)
  /\ UNCHANGED <<ledgerVars, page, authVars, serverCart, sessions, budget, qtyCalls, intents, latestEdit, snapshot>>

\* ----------------------------------------------------------- CartProvider
LoggedIn == user = "in"

\* CartProvider re-renders (and hands out a new syncCart) when its state changes
Rerender(cartSet) ==
  page \in EffectPages /\ (cartSet \/ loading' # loading \/ error' # error)

\* setLoading(true); setError(null); await api.<verb>(...)
ProviderCall(r) ==
  /\ CanIssue
  /\ loading' = TRUE
  /\ error' = FALSE
  /\ Issue(r)
  /\ effectPending' = (effectPending \/ Rerender(FALSE))

\* addToCart(productId, quantity = 1), called by a page other than the cart page
Provider_addToCart(p) ==
  /\ page = "shop"
  /\ IF LoggedIn
     THEN ProviderCall(NewReq("add", "addToCart", p, 1, <<>>))
     ELSE UNCHANGED <<loading, error, reqs, budget, qtyCalls, effectPending>>
  /\ last' = NoEvent
  /\ UNCHANGED <<ledgerVars, storeVars, page, redirecting, authVars, cart,
                 clVars, serverCart, sessions, intents, latestEdit, snapshot>>

\* ------------------------------------------------------------- CartList
\* the list with its buttons is rendered
ListShown == page = "cart" /\ ~syncingCart /\ cart # <<>>

\* useEffect(..., [syncCart]) with initCart
CartList_initCart ==
  /\ page = "cart"
  /\ effectPending
  /\ IF syncInitiated
     THEN /\ effectPending' = FALSE
          /\ UNCHANGED <<loading, error, reqs, budget, qtyCalls, syncInitiated, syncingCart>>
     ELSE /\ CanIssue
          /\ syncInitiated' = TRUE
          /\ syncingCart' = TRUE
          /\ loading' = TRUE
          /\ error' = FALSE
          /\ Issue(NewReq("sync", "initCart", 0, 0, <<>>))
          /\ effectPending' = Rerender(FALSE)
  /\ last' = NoEvent
  /\ UNCHANGED <<ledgerVars, storeVars, page, redirecting, authVars, cart,
                 clLoading, clError, localQuantities, serverCart, sessions, intents, latestEdit, snapshot>>

handleQuantityInputChange(p, v) ==
  /\ ListShown /\ ~clLoading /\ HasId(cart, p)
  /\ v > 0
  /\ localQuantities' = [localQuantities EXCEPT ![p] = v]
  /\ last' = NoEvent
  /\ UNCHANGED <<ledgerVars, storeVars, page, redirecting, authVars, provVars,
                 clLoading, clError, syncingCart, syncInitiated, effectPending,
                 reqs, serverCart, sessions, budget, qtyCalls, intents, latestEdit, snapshot>>

AwaitUpdateQuantity_debounced(origin, p, q) ==
  IF LoggedIn /\ FreeSlots = Slots
  THEN /\ ProviderCall(NewReq("update", origin, p, q, <<>>))
       /\ clLoading' = TRUE
  ELSE UNCHANGED <<loading, error, reqs, budget, qtyCalls, effectPending, clLoading>>

\* CartList awaits updateQuantity(p, q) of the provider
AwaitUpdateQuantity(origin, p, q) ==
  IF LoggedIn
  THEN /\ ProviderCall(NewReq("update", origin, p, q, <<>>))
       /\ clLoading' = TRUE
  ELSE UNCHANGED <<loading, error, reqs, budget, qtyCalls, effectPending, clLoading>>

handleQuantityInputBlur(p) ==
  /\ ListShown /\ ~clLoading /\ HasId(cart, p)
  /\ localQuantities[p] > 0
  /\ AwaitUpdateQuantity("qtyBlur", p, localQuantities[p])
  /\ latestEdit' = IF LoggedIn THEN [latestEdit EXCEPT ![p] = localQuantities[p]]
                   ELSE latestEdit
  /\ last' = NoEvent
  /\ UNCHANGED <<ledgerVars, storeVars, page, redirecting, authVars, cart,
                 clError, syncingCart, syncInitiated, localQuantities,
                 serverCart, sessions, intents, snapshot>>

NewQuantity(p, delta) ==
  Max(1, (IF localQuantities[p] = 0 THEN 1 ELSE localQuantities[p]) + delta)

handleQuantityButtonClick_late(p, delta) ==
  /\ ListShown /\ ~clLoading /\ HasId(cart, p)
  /\ delta = 0 - 1 => ~(localQuantities[p] <= 1)
  /\ LoggedIn \/ NewQuantity(p, delta) <= MaxQty
  /\ localQuantities' = IF LoggedIn THEN localQuantities
                        ELSE [localQuantities EXCEPT ![p] = NewQuantity(p, delta)]
  /\ AwaitUpdateQuantity("qtyButton", p, NewQuantity(p, delta))
  /\ intents' = IF LoggedIn THEN intents + 1 ELSE intents
  /\ latestEdit' = IF LoggedIn THEN [latestEdit EXCEPT ![p] = NewQuantity(p, delta)]
                   ELSE latestEdit
  /\ last' = NoEvent
  /\ UNCHANGED <<ledgerVars, storeVars, page, redirecting, authVars, cart,
                 clError, syncingCart, syncInitiated, serverCart, sessions,
                 snapshot>>

handleQuantityButtonClick(p, delta) ==
  /\ ListShown /\ ~clLoading /\ HasId(cart, p)
  /\ delta = 0 - 1 => ~(localQuantities[p] <= 1)
  /\ LoggedIn \/ NewQuantity(p, delta) <= MaxQty
  /\ localQuantities' = [localQuantities EXCEPT ![p] = NewQuantity(p, delta)]
  /\ AwaitUpdateQuantity("qtyButton", p, NewQuantity(p, delta))
  /\ intents' = IF LoggedIn THEN intents + 1 ELSE intents
  /\ latestEdit' = IF LoggedIn THEN [latestEdit EXCEPT ![p] = NewQuantity(p, delta)]
                   ELSE latestEdit
  /\ last' = NoEvent
  /\ UNCHANGED <<ledgerVars, storeVars, page, redirecting, authVars, cart,
                 clError, syncingCart, syncInitiated, serverCart, sessions,
                 snapshot>>

\* the component that awaits these requests unmounts: isMounted.current = false
MarkGone(rs) ==
  [s \in Slots |->
     IF rs[s] # NoReq /\ rs[s].origin \in (CartListOrigins \cup {"returnPage"})
     THEN [rs[s] EXCEPT !.gone = TRUE] ELSE rs[s]]

handleRemoveItem(p) ==
  /\ ListShown /\ ~clLoading /\ HasId(cart, p)
  /\ IF LoggedIn
     THEN /\ ProviderCall(NewReq("remove", "handleRemoveItem", p, 0, <<>>))
          /\ clLoading' = TRUE
          /\ UNCHANGED localQuantities
     ELSE /\ localQuantities' = [localQuantities EXCEPT ![p] = 0]
          /\ UNCHANGED <<loading, error, reqs, budget, qtyCalls, effectPending, clLoading>>
  /\ last' = NoEvent
  /\ UNCHANGED <<ledgerVars, storeVars, page, redirecting, authVars, cart,
                 clError, syncingCart, syncInitiated, serverCart, sessions, intents, latestEdit, snapshot>>

handleClearCart ==
  /\ ListShown /\ ~clLoading
  /\ IF LoggedIn
     THEN /\ ProviderCall(NewReq("clear", "handleClearCart", 0, 0, <<>>))
          /\ clLoading' = TRUE
          /\ UNCHANGED localQuantities
     ELSE /\ localQuantities' = [p \in RemoteProducts |-> 0]
          /\ UNCHANGED <<loading, error, reqs, budget, qtyCalls, effectPending, clLoading>>
  /\ last' = NoEvent
  /\ UNCHANGED <<ledgerVars, storeVars, page, redirecting, authVars, cart,
                 clError, syncingCart, syncInitiated, serverCart, sessions, intents, latestEdit, snapshot>>

handleSyncCart ==
  /\ ListShown
  /\ syncingCart' = TRUE
  /\ ProviderCall(NewReq("sync", "handleSyncCart", 0, 0, <<>>))
  /\ last' = NoEvent
  /\ UNCHANGED <<ledgerVars, storeVars, page, redirecting, authVars, cart,
                 clLoading, clError, syncInitiated, localQuantities,
                 serverCart, sessions, intents, latestEdit, snapshot>>

handleCheckout ==
  /\ ListShown /\ ~clLoading
  /\ IF LoggedIn
     THEN /\ CanIssue
          /\ clLoading' = TRUE
          /\ clError' = FALSE
          /\ Issue(NewReq("checkout", "handleCheckout", 0, 0, cart))
          /\ snapshot' = cart
          /\ UNCHANGED <<page, effectPending>>
     ELSE /\ page' = "login"
          /\ effectPending' = FALSE
          /\ reqs' = MarkGone(reqs)
          /\ UNCHANGED <<clLoading, clError, budget, qtyCalls, snapshot>>
  /\ last' = NoEvent
  /\ UNCHANGED <<ledgerVars, storeVars, redirecting, authVars, provVars,
                 syncingCart, syncInitiated, localQuantities,
                 serverCart, sessions, intents, latestEdit>>

\* ---------------------------------------- useProductStore.initiateCheckout
initiateCheckout_nocheck ==
  /\ page = "shop"
  /\ CanIssue
  /\ psLoading' = TRUE
  /\ psError' = FALSE
  /\ Issue(NewReq("checkout", "initiateCheckout", 0, 0, psItems))
  /\ snapshot' = psItems
  /\ last' = [ev |-> "initiateCheckout", empty |-> (psItems = <<>>)]
  /\ UNCHANGED <<ledgerVars, page, redirecting, authVars, provVars, clVars,
                 effectPending, serverCart, sessions, intents, latestEdit>>

initiateCheckout ==
  /\ page = "shop"
  /\ IF psItems = <<>>
     THEN /\ psLoading' = FALSE
          /\ psError' = TRUE
          /\ UNCHANGED <<reqs, budget, qtyCalls, snapshot>>
     ELSE /\ CanIssue
          /\ psLoading' = TRUE
          /\ psError' = FALSE
          /\ Issue(NewReq("checkout", "initiateCheckout", 0, 0, psItems))
          /\ snapshot' = psItems
  /\ last' = [ev |-> "initiateCheckout", empty |-> (psItems = <<>>)]
  /\ UNCHANGED <<ledgerVars, page, redirecting, authVars, provVars, clVars,
                 effectPending, serverCart, sessions, intents, latestEdit>>

\* ------------------------------------------------- checkout return pages
\* store/checkout/success and store/checkout/canceled: useEffect(..., [syncCart])
StoreReturnPage_effect ==
  /\ page \in {"storeSuccess", "storeCanceled"}
  /\ effectPending
  /\ CanIssue
  /\ loading' = TRUE
  /\ error' = FALSE
  /\ Issue(NewReq("sync", "returnPage", 0, 0, <<>>))
  /\ effectPending' = Rerender(FALSE)
  /\ last' = NoEvent
  /\ UNCHANGED <<ledgerVars, storeVars, page, redirecting, authVars, cart,
                 clVars, serverCart, sessions, intents, latestEdit, snapshot>>

\* ------------------------------------------------------ page life cycle
\* a document load: React state and the zustand stores start afresh; a
\* request already on the wire may still reach the service
Orphaned(rs) ==
  [s \in Slots |->
     IF rs[s] # NoReq /\ rs[s].stage = "sent"
        /\ rs[s].kind \in (Mutations \cup {"checkout"})
     THEN [rs[s] EXCEPT !.orphan = TRUE] ELSE NoReq]

ResetClient(target) ==
  /\ page' = target
  /\ redirecting' = "none"
  /\ user' = IF accessToken' THEN "pending" ELSE "anon"
  /\ cart' = <<>>
  /\ loading' = FALSE
  /\ error' = FALSE
  /\ clLoading' = FALSE
  /\ clError' = FALSE
  /\ syncingCart' = FALSE
  /\ syncInitiated' = FALSE
  /\ localQuantities' = [p \in RemoteProducts |-> 0]
  /\ effectPending' = (target \in EffectPages)
  /\ reqs' = Orphaned(reqs)
  /\ csItems' = <<>>
  /\ psItems' = <<>>
  /\ psLoading' = FALSE
  /\ psError' = FALSE

\* window.location.href = ... takes effect
FollowRedirect ==
  /\ redirecting # "none"
  /\ UNCHANGED <<accessToken, refreshToken>>
  /\ ResetClient(redirecting)
  /\ last' = NoEvent
  /\ UNCHANGED <<lsCart, serverCart, sessions, budget, qtyCalls, intents, latestEdit, snapshot>>

ReturnPages == {"storeSuccess", "storeCanceled", "success", "canceled"}

ReturnRoute(outcome, storeRoute) ==
  IF outcome = "Succeeded"
  THEN (IF storeRoute THEN "storeSuccess" ELSE "success")
  ELSE (IF storeRoute THEN "storeCanceled" ELSE "canceled")

\* the payment UI sends the browser back; the remote system may have
\* cleared the cart after a payment
ReturnFromPayment(outcome, storeRoute, cleared) ==
  /\ page = "pay"
  /\ cleared => outcome = "Succeeded"
  /\ UNCHANGED <<accessToken, refreshToken>>
  /\ ResetClient(ReturnRoute(outcome, storeRoute))
  /\ sessions' = IF sessions > 0 THEN sessions - 1 ELSE 0
  /\ serverCart' = IF cleared THEN <<>> ELSE serverCart
  /\ last' = [ev |-> "returned", outcome |-> outcome]
  /\ UNCHANGED <<lsCart, budget, qtyCalls, intents, latestEdit, snapshot>>

\* "Continue Shopping" (href) on a return page
LeaveReturnPage ==
  /\ page \in ReturnPages
  /\ UNCHANGED <<accessToken, refreshToken>>
  /\ ResetClient("shop")
  /\ last' = NoEvent
  /\ UNCHANGED <<lsCart, serverCart, sessions, budget, qtyCalls, intents, latestEdit, snapshot>>

\* client-side navigation to the cart page: CartList mounts
GoToCart ==
  /\ page = "shop"
  /\ page' = "cart"
  /\ clLoading' = FALSE
  /\ clError' = FALSE
  /\ syncingCart' = FALSE
  /\ syncInitiated' = FALSE
  /\ localQuantities' = FromCart(cart)
  /\ effectPending' = TRUE
  /\ last' = NoEvent
  /\ UNCHANGED <<ledgerVars, storeVars, redirecting, authVars, provVars,
                 reqs, serverCart, sessions, budget, qtyCalls, intents, latestEdit, snapshot>>

\* client-side navigation away from the cart page: CartList unmounts
GoToShop ==
  /\ page = "cart"
  /\ page' = "shop"
  /\ effectPending' = FALSE
  /\ reqs' = MarkGone(reqs)
  /\ last' = NoEvent
  /\ UNCHANGED <<ledgerVars, storeVars, redirecting, authVars, provVars,
                 clVars, serverCart, sessions, budget, qtyCalls, intents, latestEdit, snapshot>>

\* ------------------------------------------------------------ AuthContext
\* fetchCart as run by useEffect(..., [user]) once a user is set
FetchCartForUser ==
  /\ CanIssue
  /\ loading' = TRUE
  /\ error' = FALSE
  /\ Issue(NewReq("fetch", "fetchCart", 0, 0, <<>>))
  /\ effectPending' = (page \in EffectPages)

\* checkAuth on mount: the stored token is validated, or dropped
checkAuth(valid) ==
  /\ user = "pending"
  /\ page # "pay"
  /\ IF valid
     THEN /\ user' = "in"
          /\ FetchCartForUser
          /\ UNCHANGED <<accessToken, refreshToken>>
     ELSE /\ user' = "anon"
          /\ accessToken' = FALSE
          /\ refreshToken' = FALSE
          /\ UNCHANGED <<loading, error, reqs, budget, qtyCalls, effectPending>>
  /\ last' = NoEvent
  /\ UNCHANGED <<ledgerVars, storeVars, page, redirecting, cart, clVars,
                 serverCart, sessions, intents, latestEdit, snapshot>>

login ==
  /\ page = "login"
  /\ user # "in"
  /\ accessToken' = TRUE
  /\ refreshToken' = TRUE
  /\ user' = "in"
  /\ page' = "shop"
  /\ FetchCartForUser
  /\ last' = NoEvent
  /\ UNCHANGED <<ledgerVars, storeVars, redirecting, cart, clVars,
                 serverCart, sessions, intents, latestEdit, snapshot>>

\* logout: the [user] effect runs fetchCart without a user, which empties the cart
logout ==
  /\ user = "in"
  /\ page \in {"shop", "cart"}
  /\ accessToken' = FALSE
  /\ refreshToken' = FALSE
  /\ user' = "anon"
  /\ page' = "login"
  /\ cart' = <<>>
  /\ effectPending' = FALSE
  /\ reqs' = MarkGone(reqs)
  /\ last' = NoEvent
  /\ UNCHANGED <<ledgerVars, storeVars, redirecting, loading, error, clVars,
                 serverCart, sessions, budget, qtyCalls, intents, latestEdit, snapshot>>

\* ------------------------------------------------------- specification
IdleApp ==
  /\ psLoading = FALSE /\ psError = FALSE
  /\ redirecting = "none"
  /\ cart = <<>> /\ loading = FALSE /\ error = FALSE
  /\ clLoading = FALSE /\ clError = FALSE
  /\ syncingCart = FALSE /\ syncInitiated = FALSE
  /\ localQuantities = [p \in RemoteProducts |-> 0]
  /\ reqs = [s \in Slots |-> NoReq]
  /\ sessions = 0
  /\ last = NoEvent
  /\ intents = 0 /\ qtyCalls = 0
  /\ latestEdit = [p \in RemoteProducts |-> NoEdit]
  /\ snapshot = <<>>

InitLedger ==
  /\ csItems = <<>>
  /\ psItems = <<>>
  /\ lsCart = Absent
  /\ IdleApp
  /\ page = "shop"
  /\ user = "anon" /\ accessToken = FALSE /\ refreshToken = FALSE
  /\ effectPending = FALSE
  /\ serverCart = <<>>
  /\ budget = [calls |-> 0, cap |-> 0]

Init == InitLedger

NextLedger ==
  \/ \E p \in Products : CartStore_addToCart(p)
  \/ \E p \in Products : CartStore_removeFromCart(p)
  \/ \E p \in Products, q \in QtyInputs : CartStore_updateQuantity(p, q)
  \/ CartStore_clearCart
  \/ \E p \in Products : ProductStore_addToCart(p)
  \/ \E p \in Products : ProductStore_removeFromCart(p)
  \/ \E p \in Products, q \in QtyInputs : ProductStore_updateCartQuantity(p, q)
  \/ ProductStore_clearCart

SpecLedger == InitLedger /\ [][NextLedger]_vars

\* the remote cart a session may find: empty, or one line per product
FullCart == [p \in RemoteProducts |-> [id |-> p, quantity |-> 1]]
InitServerCarts == {<<>>, FullCart}

\* a document load of the products page or of the cart page, in a session
\* that may issue b requests
InitApp(b, c) ==
  /\ csItems = <<>>
  /\ psItems = <<>>
  /\ lsCart = Absent
  /\ IdleApp
  /\ page \in {"shop", "cart"}
  /\ accessToken \in BOOLEAN
  /\ refreshToken = accessToken
  /\ user = IF accessToken THEN "pending" ELSE "anon"
  /\ effectPending = (page \in EffectPages)
  /\ serverCart \in InitServerCarts
  /\ budget = [calls |-> b, cap |-> c]

Network ==
  \/ \E s \in Slots, o \in {"ok", "bad", "lost"} : Serve(s, o)
  \/ \E s \in Slots, st \in Failures : Fail(s, st)
  \/ \E s \in Slots, o \in RefreshOutcomes : Interceptor401(s, o)
  \/ \E s \in Slots : Deliver(s)

NextCart ==
  \/ Network
  \/ \E p \in RemoteProducts : Provider_addToCart(p)
  \/ CartList_initCart
  \/ \E p \in RemoteProducts, v \in 1..MaxQty : handleQuantityInputChange(p, v)
  \/ \E p \in RemoteProducts : handleQuantityInputBlur(p)
  \/ \E p \in RemoteProducts, d \in {0 - 1, 1} : handleQuantityButtonClick(p, d)
  \/ \E p \in RemoteProducts : handleRemoveItem(p)
  \/ handleClearCart
  \/ handleSyncCart
  \/ FollowRedirect
  \/ GoToCart
  \/ GoToShop
  \/ \E v \in BOOLEAN : checkAuth(v)
  \/ login
  \/ logout

InitCart == InitApp(MaxCalls, MaxInflight)

SpecCart == InitCart /\ [][NextCart]_vars
\* products page: handleAddToCart(product), rendered for a logged-in user
handleAddToCart(p) ==
  /\ page = "shop" /\ LoggedIn
  /\ ProductStore_addToCart(p)

\* the checkout entry points, the payment round trip and the return pages
NextCheckout ==
  \/ Network
  \/ CartList_initCart
  \/ handleQuantityButtonClick(MinOf(RemoteProducts), 1)
  \/ handleCheckout
  \/ handleAddToCart(MinOf(RemoteProducts))
  \/ initiateCheckout
  \/ StoreReturnPage_effect
  \/ FollowRedirect
  \/ \E o \in {"Succeeded", "Canceled"}, sr \in BOOLEAN, c \in BOOLEAN :
        ReturnFromPayment(o, sr, c)
  \/ LeaveReturnPage
  \/ \E v \in BOOLEAN : checkAuth(v)

InitCheckout == InitApp(MaxCheckoutCalls, CheckoutInflight)

SpecCheckout == InitCheckout /\ [][NextCheckout]_vars

\* a session on the cart page that only presses the + button of one product
NextClicks ==
  \/ Network
  \/ CartList_initCart
  \/ handleSyncCart
  \/ handleQuantityButtonClick(MinOf(RemoteProducts), 1)
  \/ \E v \in BOOLEAN : checkAuth(v)

InitClicks == InitApp(MaxClicks + 1, ClicksInflight) /\ page = "cart" /\ accessToken

SpecClicks == InitClicks /\ [][NextClicks]_vars

\* a logged-in session in which every request is answered with success
NetworkOk ==
  \/ \E s \in Slots : Serve(s, "ok")
  \/ \E s \in Slots : Deliver(s)

\* a session on the cart page whose calls all succeed and whose only edits
\* are presses of the + button of one product
NextRace ==
  \/ NetworkOk
  \/ CartList_initCart
  \/ handleQuantityButtonClick(MinOf(RemoteProducts), 1)
  \/ checkAuth(TRUE)

InitRace == InitApp(MaxCalls + 1, MaxInflight) /\ page = "cart" /\ accessToken

SpecRace == InitRace /\ [][NextRace]_vars

NextConverge ==
  \/ NetworkOk
  \/ \E p \in RemoteProducts : Provider_addToCart(p)
  \/ CartList_initCart
  \/ handleQuantityButtonClick(MinOf(RemoteProducts), 1)
  \/ \E p \in RemoteProducts : handleRemoveItem(p)
  \/ checkAuth(TRUE)

InitConverge == InitApp(MaxCalls, MaxInflight) /\ accessToken

SpecConverge == InitConverge /\ [][NextConverge]_vars

\* ---------------------------------------------------------------- claims
NoDupIds(s) == \A i, j \in DOMAIN s : s[i].id = s[j].id => i = j

\* C1: after any sequence of add, set-quantity, remove and clear calls on
\* useCartStore or on the cart part of useProductStore, starting from the
\* empty cart, no two cart lines have the same product id.
C1_UniqueProductIds == NoDupIds(csItems) /\ NoDupIds(psItems)

\* a cart with two lines in each store, one of them bumped by a second add
C1_Witness ==
  /\ Len(csItems) = 2 /\ \E i \in DOMAIN csItems : csItems[i].quantity = 2
  /\ Len(psItems) = 2 /\ \E i \in DOMAIN psItems : psItems[i].cartQuantity = 2

\* C2: after any sequence of add, set-quantity and remove calls (set-quantity
\* called with any integer, 0 and negatives included) every cart line of
\* useCartStore and of useProductStore has quantity >= 1.
C2_QuantityAtLeastOne ==
  /\ \A i \in DOMAIN csItems : csItems[i].quantity >= 1
  /\ \A i \in DOMAIN psItems : psItems[i].cartQuantity >= 1

\* C3: while a checkout session created for a cart is pending (request sent
\* or answered, not yet resolved by a success/cancel return) a second
\* begin-checkout sends no second session-creation request: at no time are
\* there two pending checkout sessions.
PendingCheckoutRequests ==
  {s \in Slots : reqs[s] # NoReq /\ reqs[s].kind = "checkout"
                   /\ reqs[s].stage = "sent"}

C3_SinglePendingSession == Cardinality(PendingCheckoutRequests) + sessions <= 1

\* C4: beginning checkout on a cart without lines fails with the empty-cart
\* error and sends nothing to the payment session service, through
\* initiateCheckout and through CartList.handleCheckout alike.
C4_EmptyCartNoRequest ==
  /\ \A s \in Slots :
       (reqs[s] # NoReq /\ reqs[s].kind = "checkout") => reqs[s].items # <<>>
  /\ (last.ev = "initiateCheckout" /\ last.empty) => (psError /\ ~psLoading)

C4_Witness ==
  /\ last.ev = "initiateCheckout" /\ last.empty
  /\ psError
  /\ \A s \in Slots : reqs[s] = NoReq
  /\ budget.calls = MaxCheckoutCalls

\* what a failed begin-checkout leaves behind: error reported, cart as it
\* was, loading flag reset
CheckoutFailureHandled ==
  (last.ev = "delivered" /\ last.kind = "checkout" /\ last.resp \in Failures) =>
    /\ cart = last.cartWas
    /\ psItems = last.itemsWas
    /\ last.origin = "initiateCheckout" => (psError /\ ~psLoading)
    /\ (last.origin = "handleCheckout" /\ ~last.gone) => (clError /\ ~clLoading)

OutstandingCartCalls ==
  {s \in Slots : reqs[s] # NoReq /\ reqs[s].kind # "checkout" /\ ~reqs[s].orphan}

C6_OneCallInFlight == Cardinality(OutstandingCartCalls) <= 1

\* C7: after a failed gateway call the local cart holds what it held before
\* the failure, and an error is set.
C7_FailureKeepsCart ==
  (last.ev = "delivered" /\ last.kind # "checkout" /\ last.resp \in Failures) =>
    (cart = last.cartWas /\ error)

\* C8: every return from the payment UI, on a success route or a canceled
\* route, triggers syncCart: on a return page the effect that calls it is due
\* or its request is outstanding.
C8_ReturnTriggersSync ==
  page \in ReturnPages =>
    \/ effectPending
    \/ \E s \in Slots : reqs[s] # NoReq /\ reqs[s].origin = "returnPage"

Settled ==
  /\ LoggedIn
  /\ \A s \in Slots : reqs[s] = NoReq
  /\ ~effectPending
  /\ redirecting = "none"

\* C11: when the user has stopped issuing cart mutations and every gateway
\* call has succeeded and been processed, the local cart view equals the
\* remote cart (and, nothing being left to run, stays equal to it).
C11_SettledViewIsRemote == Settled => cart = serverCart

\* a cart gateway call that ended with no response or a 5xx has just been
\* processed by the provider
CartCallFailed ==
  last.ev = "delivered" /\ last.kind # "checkout" /\ last.resp = "err"

C13_SetQuantityIdempotent ==
  \A p \in Products, q \in QtyInputs :
    /\ CartStore_update(CartStore_update(csItems, p, q), p, q)
         = CartStore_update(csItems, p, q)
    /\ ProductStore_update(ProductStore_update(psItems, p, q), p, q)
         = ProductStore_update(psItems, p, q)

\* both stores hold two lines, and set-quantity has changed one of them to a
\* value no add produces
C13_Witness ==
  /\ Len(csItems) = 2 /\ Len(psItems) = 2
  /\ \E i \in DOMAIN csItems : csItems[i].quantity < 1
  /\ \E p \in Products, q \in QtyInputs :
        /\ CartStore_update(csItems, p, q) # csItems
        /\ ProductStore_update(psItems, p, q) # psItems

\* C14: setting a line's quantity to a value below 1 removes that line from
\* the cart, exactly as Remove of that product would, in both local stores.
C14_BelowOneRemoves ==
  \A p \in Products, q \in QtyInputs :
    q < 1 =>
      /\ CartStore_update(csItems, p, q) = CartStore_remove(csItems, p)
      /\ ProductStore_update(psItems, p, q) = ProductStore_remove(psItems, p)

\* what Add of product p may do to a cart: bump the one line of p by 1 and
\* keep the number and order of lines, or append one line of quantity 1
AddsOne(before, after, p, qty(_)) ==
  IF HasId(before, p)
  THEN /\ Len(after) = Len(before)
       /\ \A i \in DOMAIN before :
            /\ after[i].id = before[i].id
            /\ qty(after[i]) = qty(before[i]) + (IF before[i].id = p THEN 1 ELSE 0)
  ELSE /\ Len(after) = Len(before) + 1
       /\ \A i \in DOMAIN before : after[i] = before[i]
       /\ after[Len(after)].id = p
       /\ qty(after[Len(after)]) = 1

\* C15: Add of a product already in the cart increases that line's quantity
\* by exactly 1 and keeps the number and order of lines; Add of a product
\* not in the cart appends exactly one line with quantity 1 at the end,
\* whatever quantity the added product carries, and keeps every other line.
C15_AddMergesOrAppends ==
  \A p \in Products :
    /\ \A k \in QtyInputs :
         AddsOne(csItems, CartStore_addItem(csItems, [id |-> p, quantity |-> k]),
                 p, LAMBDA l : l.quantity)
    /\ AddsOne(psItems, ProductStore_add(psItems, p), p, LAMBDA l : l.cartQuantity)

\* carts in which a further Add merges for one product and appends for another
C15_Witness ==
  /\ Len(csItems) = 1 /\ csItems[1].quantity = 2
  /\ Len(psItems) = 1 /\ psItems[1].cartQuantity = 2
  /\ \E p \in Products : HasId(csItems, p) /\ HasId(psItems, p)
  /\ \E p \in Products : ~HasId(csItems, p) /\ ~HasId(psItems, p)

\* ---- totals ----
\* default_price values: "tagged" is a string "<prefix>_<n>", "plain" a string
\* "<n>" without underscore, "number" the number n
PriceKinds == {"tagged", "plain", "number"}
DefaultPrices == [kind : PriceKinds, n : 0..MaxPrice]
TaggedPrices == {dp \in DefaultPrices : dp.kind = "tagged"}

\* A JavaScript number is held as <<h>>, h its count of hundredths, so that
\* x / 100 of a whole x is exact; NaN is <<>> and absorbs every operation.
NaN == <<>>
JsWhole(n) == <<100 * n>>
JsDiv100(x) == IF x = NaN THEN NaN ELSE <<x[1] \div 100>>
JsTimes(x, q) == IF x = NaN THEN NaN ELSE <<x[1] * q>>
JsPlus(x, y) == IF x = NaN \/ y = NaN THEN NaN ELSE <<x[1] + y[1]>>

\* parseFloat(default_price.split('_')[1]): the part after the underscore, NaN
\* when there is none
ParseAfterUnderscore(dp) == IF dp.kind = "tagged" THEN JsWhole(dp.n) ELSE NaN

RECURSIVE getCartTotalFrom(_, _, _)
getCartTotalFrom(items, pr, total) ==
  IF items = <<>> THEN total
  ELSE LET item == Head(items)
           price == JsDiv100(ParseAfterUnderscore(pr[item.id]))
       IN getCartTotalFrom(Tail(items), pr, JsPlus(total, JsTimes(price, item.quantity)))

\* useCartStore.getCartTotal over lines priced by pr
getCartTotal(items, pr) == getCartTotalFrom(items, pr, JsWhole(0))

\* the price CartList.calculateTotal takes for a line
LinePrice(dp) ==
  IF dp.kind = "tagged" THEN JsDiv100(ParseAfterUnderscore(dp))
  ELSE IF dp.kind = "number" THEN JsDiv100(JsWhole(dp.n))
  ELSE JsWhole(dp.n)

RECURSIVE calculateTotalFrom(_, _, _, _)
calculateTotalFrom(c, lq, pr, total) ==
  IF c = <<>> THEN total
  ELSE LET item == Head(c)
           q == IF lq[item.id] # 0 THEN lq[item.id] ELSE item.quantity
       IN calculateTotalFrom(Tail(c), lq, pr,
                             JsPlus(total, JsTimes(LinePrice(pr[item.id]), q)))

\* CartList.calculateTotal over the cart c and the local quantities lq
calculateTotal(c, lq, pr) == calculateTotalFrom(c, lq, pr, JsWhole(0))

\* localQuantities as the [cart] effect leaves them for the cart c
QuantitiesOf(c) ==
  [p \in Products |->
     IF HasId(c, p) THEN (CHOOSE it \in {c[i] : i \in DOMAIN c} : it.id = p).quantity
     ELSE 0]

\* the reference sum, in whole minor units
RECURSIVE totalMinorUnits(_, _)
totalMinorUnits(items, pr) ==
  IF items = <<>> THEN 0
  ELSE pr[Head(items).id].n * Head(items).quantity + totalMinorUnits(Tail(items), pr)

\* C16: for every cart and every pricing, getCartTotal and calculateTotal
\* return the sum over the lines of unit price in minor units times quantity
\* (0 for the empty cart).
C16_TotalIsMinorUnitSum ==
  \A pr \in [Products -> TaggedPrices] :
    /\ getCartTotal(csItems, pr) = JsWhole(totalMinorUnits(csItems, pr))
    /\ calculateTotal(csItems, QuantitiesOf(csItems), pr)
         = JsWhole(totalMinorUnits(csItems, pr))

CheckoutSucceeded ==
  last.ev = "delivered" /\ last.kind = "checkout" /\ last.resp = "ok"

\* C17: a successful begin-checkout leaves the lines and quantities of the
\* cart as they were and leaves the edit controls enabled, and a
\* session-creation request carries the items it was built with whatever
\* edits the cart has seen since.
C17_CheckoutKeepsCart ==
  /\ [](CheckoutSucceeded =>
          /\ cart = last.cartWas
          /\ psItems = last.itemsWas
          /\ (last.origin = "handleCheckout" /\ ~last.gone) => ~clLoading
          /\ last.origin = "initiateCheckout" => ~psLoading)
  /\ [][\A s \in Slots :
          /\ (reqs[s] = NoReq /\ reqs'[s] # NoReq /\ reqs'[s].kind = "checkout") =>
                reqs'[s].items =
                  (IF reqs'[s].origin = "handleCheckout" THEN cart ELSE psItems)
          /\ (reqs[s] # NoReq /\ reqs[s].kind = "checkout" /\ reqs'[s] # NoReq) =>
                reqs'[s].items = reqs[s].items]_vars

\* a session was created from a request built before the cart was edited
C17_Witness ==
  /\ CheckoutSucceeded
  /\ last.origin = "initiateCheckout"
  /\ snapshot # <<>>
  /\ psItems # snapshot

AllAnswersIn == \A s \in Slots : reqs[s] = NoReq

\* C18: once the responses to all calls have arrived, the local quantity of
\* each product the user set a quantity for is the quantity of the latest
\* such edit: a response to an earlier call has not overwritten it.
C18_LatestEditWins ==
  (AllAnswersIn /\ page = "cart" /\ LoggedIn) =>
     \A p \in RemoteProducts :
        latestEdit[p] # NoEdit => localQuantities[p] = latestEdit[p]

NotAuthenticated ==
  last.ev = "delivered" /\ last.kind # "checkout" /\ last.resp = "401"

\* C19: a cart call answered 401 reaches its caller without having been
\* sent again, and leaves the local cart as it was.
C19_401PropagatedCartKept ==
  NotAuthenticated => (last.sends = 1 /\ cart = last.cartWas)

SyncSucceeded ==
  last.ev = "delivered" /\ last.kind = "sync" /\ last.resp = "ok"

\* C21: when a syncCart call completes successfully, the local cart is the
\* cart the remote service returned, whatever the local cart held before;
\* with no other call outstanding the cart is not loading and, on the cart
\* page, the local quantities are those of the fetched cart.
C21_SyncReplacesCart ==
  SyncSucceeded =>
     /\ cart = last.data
     /\ AllAnswersIn => ~loading
     /\ page = "cart" => localQuantities = FromCart(last.data)

\* a sync replaced a non-empty local cart by a different one
C21_Witness ==
  /\ SyncSucceeded
  /\ last.cartWas # <<>>
  /\ last.data # last.cartWas
  /\ cart = last.data

MutationSucceeded ==
  /\ last.ev = "delivered"
  /\ last.kind \in {"add", "update", "remove"}
  /\ last.resp = "ok"

\* C22: after the successful response to an add, update-quantity or remove
\* call has been processed, the local cart is exactly the cart that response
\* returned, and with no other call outstanding the cart is not loading.
C22_MutationAdoptsServerCart ==
  MutationSucceeded => (cart = last.data /\ (AllAnswersIn => ~loading))

\* an add was answered with a cart that differs from the local one
C22_Witness ==
  /\ MutationSucceeded
  /\ last.kind = "add"
  /\ last.data # <<>>
  /\ cart = last.data
  /\ cart # last.cartWas

\* the quantity edits whose call is still outstanding
OutstandingEdits ==
  {s \in Slots : /\ reqs[s] # NoReq
                 /\ reqs[s].origin \in {"qtyButton", "qtyBlur"}
                 /\ ~reqs[s].orphan /\ ~reqs[s].gone}

\* C23: in every state, also while a call is in flight, the total shown is
\* computed from the local cart with the outstanding quantity edits: a line
\* whose edit is outstanding counts with its edited quantity.
C23_TotalUsesLocalEdits ==
  page = "cart" =>
    \A pr \in [RemoteProducts -> TaggedPrices] : \A s \in OutstandingEdits :
       calculateTotal(cart, localQuantities, pr)
         = calculateTotal(cart, [localQuantities EXCEPT ![reqs[s].pid] = reqs[s].qty], pr)

\* a mutation call was rejected by the service (a 4xx such as 409 Conflict,
\* a 5xx, or no answer) and the rejection has reached its handler
ConflictRejected ==
  /\ last.ev = "delivered"
  /\ last.kind \in Mutations
  /\ last.resp = "err"

C25_AllOpsIdempotent ==
  \A p \in Products :
    /\ CartStore_add(CartStore_add(csItems, p), p) = CartStore_add(csItems, p)
    /\ ProductStore_add(ProductStore_add(psItems, p), p) = ProductStore_add(psItems, p)
    /\ CartStore_remove(CartStore_remove(csItems, p), p) = CartStore_remove(csItems, p)
    /\ ProductStore_remove(ProductStore_remove(psItems, p), p) = ProductStore_remove(psItems, p)

\* C25: Remove applied twice gives the cart it gives applied once, and
\* Remove of an id that is not in the cart leaves the cart unchanged; Add is
\* not idempotent: a second Add of the same product adds 1 to the quantity
\* the first one left.
C25_RemoveIdempotentAddCounts ==
  \A p \in Products :
    /\ CartStore_remove(CartStore_remove(csItems, p), p) = CartStore_remove(csItems, p)
    /\ ProductStore_remove(ProductStore_remove(psItems, p), p) = ProductStore_remove(psItems, p)
    /\ ~HasId(csItems, p) => CartStore_remove(csItems, p) = csItems
    /\ ~HasId(psItems, p) => ProductStore_remove(psItems, p) = psItems
    /\ AddsOne(CartStore_add(csItems, p), CartStore_add(CartStore_add(csItems, p), p),
               p, LAMBDA l : l.quantity)
    /\ AddsOne(ProductStore_add(psItems, p), ProductStore_add(ProductStore_add(psItems, p), p),
               p, LAMBDA l : l.cartQuantity)
    /\ CartStore_add(CartStore_add(csItems, p), p) # CartStore_add(csItems, p)
    /\ ProductStore_add(ProductStore_add(psItems, p), p) # ProductStore_add(psItems, p)

\* carts with one line each and a product that is in neither
C25_Witness ==
  /\ Len(csItems) = 1 /\ csItems[1].quantity = 1
  /\ Len(psItems) = 1 /\ psItems[1].cartQuantity = 1
  /\ \E p \in Products : ~HasId(csItems, p) /\ ~HasId(psItems, p)

\* C26: the 401 handler re-sends a request at most once: every request is
\* sent at most twice, a second send carries the _retry flag, and a request
\* that carries the flag is never sent again: once answered it stays as it
\* is until its caller takes the answer.
C26_ResentAtMostOnce ==
  /\ [](\A s \in Slots :
          reqs[s] # NoReq =>
             (reqs[s].sends <= 2 /\ (reqs[s].sends = 2 => reqs[s].retry)))
  /\ [][\A s \in Slots :
          (reqs[s] # NoReq /\ reqs[s].retry /\ reqs'[s] # NoReq /\ ~reqs'[s].orphan) =>
             /\ reqs'[s].sends = reqs[s].sends
             /\ reqs'[s].retry
             /\ reqs[s].stage = "answered" => reqs'[s] = reqs[s]]_vars

\* the re-sent cart request was answered 401 again and rejected to its caller
C26_Witness ==
  /\ last.ev = "delivered"
  /\ last.kind # "checkout"
  /\ last.resp = "401"
  /\ last.sends = 2

\* C27: while no user is authenticated no CartProvider operation hands a
\* request to the remote cart service, and the cart is changed by none of
\* the mutating operations: a step taken without a user issues no cart
\* request.
C27_NoUserNoCartRequest ==
  [][\A s \in Slots :
       (reqs[s] = NoReq /\ reqs'[s] # NoReq /\ reqs'[s].kind # "checkout") => LoggedIn]_vars

\* the initCart effect is due to run and will call syncCart again
SyncDue == page = "cart" /\ effectPending /\ ~syncInitiated

\* C28: once the syncCart call of the mounted CartList has completed and
\* changed nothing, the component is quiescent: with no call outstanding and
\* no user action, no further syncCart call is due.
C28_QuiescentAfterSync ==
  (/\ SyncSucceeded /\ last.origin = "initCart"
   /\ last.data = last.cartWas
   /\ AllAnswersIn)
  => ~SyncDue

\* C29: when the token refresh of the 401 handler fails, both tokens are
\* removed, the browser heads for /auth/login and the original request is
\* left to be rejected to its caller; the request is re-sent only after a
\* refresh that returned a new access token, which is in storage by then.
C29_RefreshFailureClearsTokens ==
  /\ last.ev = "refreshFailed" =>
       /\ ~accessToken /\ ~refreshToken
       /\ redirecting = "login"
       /\ reqs[last.slot] # NoReq
       /\ reqs[last.slot].stage = "answered" /\ reqs[last.slot].resp = "401"
       /\ reqs[last.slot].retry
  /\ last.ev = "resent" => (last.access /\ accessToken)

\* C30: in useProductStore the persisted 'cart' entry holds the in-memory
\* cartItems after every addToCart, removeFromCart and accepted
\* updateCartQuantity, and is absent after clearCart; an updateCartQuantity
\* with quantity < 1 changes neither.
C30_PersistedCartMatches ==
  /\ [](IF lsCart = Absent THEN psItems = <<>> ELSE lsCart = Stored(psItems))
  /\ [](\A p \in Products, q \in QtyInputs :
          q < 1 => ProductStore_update(psItems, p, q) = psItems)
  /\ [][(psItems' # psItems \/ lsCart' # lsCart) =>
          (lsCart' = Stored(psItems') \/ (lsCart' = Absent /\ psItems' = <<>>))]_vars

\* two lines in memory and in the persisted entry, one with an edited quantity
C30_Witness ==
  /\ lsCart = Stored(psItems)
  /\ Len(psItems) = 2
  /\ psItems[1].cartQuantity = 2

====
